---- MODULE Spec2Model ----
(***************************************************************************)
(* A model of pyrameter's SearchSpace (pyrameter/searchspace.py) and of    *)
(* the bayes_opt sampling method (pyrameter/methods/bayes.py).             *)
(*                                                                         *)
(* A SearchSpace object is a record [domains, trials, complexity_,         *)
(* uncertainty_]; the last two are the attributes _complexity and          *)
(* _uncertainty.  Every method is an operator from a SearchSpace to the    *)
(* set of its possible outcomes, an outcome being the SearchSpace after    *)
(* the call, the value returned (or the exception raised), and the number  *)
(* of sampling-method invocations and surrogate fits the call performed.   *)
(* Domain, Trial and random_search live in modules of the package that are *)
(* not part of the sources at hand; they are modelled from the             *)
(* specification's description of them.                                    *)
(***************************************************************************)
EXTENDS Integers, Sequences, FiniteSets, TLC

VARIABLES
    space,      \* the SearchSpace under test
    copy,       \* a second SearchSpace object (from_json / constructor), or None
    origin,     \* how copy was made: "none", "from_json", "extended"
    exported,   \* the JSON object copy was rebuilt from, or None
    op,         \* the operation performed by the last step
    arg,        \* its argument (sampling method, mode, ...)
    ret,        \* what it returned or raised
    calls,      \* sampling-method invocations made by the last step
    fits        \* surrogate (Gaussian process) fits made by the last step

vars == <<space, copy, origin, exported, op, arg, ret, calls, fits>>

-----------------------------------------------------------------------------
(* Bounds of the model.                                                    *)

MaxTrials == 3        \* history length explored by Spec
MaxOptimumTrials == 4 \* history length explored by SpecOptimum
MaxObjective == 3     \* objectives reported in SpecOptimum: 1..MaxObjective
MaxLongTrials == 11   \* history length explored by SpecLong
MaxTwoTrials == 2     \* history length explored by SpecTwo
MaxWarmUp == 2        \* warm_up arguments given to bayes_opt: 1..MaxWarmUp

-----------------------------------------------------------------------------
(* Python values.                                                          *)

None == [kind |-> "None"]
Num(v) == [kind |-> "num", val |-> v]
List(v) == [kind |-> "list", val |-> v]
Matrix(rows) == [kind |-> "matrix", rows |-> rows]
TrialRef(i, t) == [kind |-> "Trial", index |-> i, trial |-> t]
Json(o) == [kind |-> "json", obj |-> o]
Raise(exc) == [kind |-> "raise", exc |-> exc]

Raised(r) == r.kind = "raise"

Outcome(s, r, c, f) == [space |-> s, ret |-> r, calls |-> c, fits |-> f]

RECURSIVE Product(_)
Product(seq) ==
    IF seq = <<>> THEN 1 ELSE seq[1] * Product(Tail(seq))

RECURSIVE Reversed(_)
Reversed(seq) ==
    IF seq = <<>> THEN <<>> ELSE Append(Reversed(Tail(seq)), seq[1])

(* sorted(seq, key=...) and list.sort(): a stable sort of a sequence of     *)
(* [key, item] pairs by key.  x is inserted after every element whose key  *)
(* is not greater, so equal keys keep the order they had in the input.     *)
RECURSIVE InsertStable(_, _)
InsertStable(x, seq) ==
    IF seq = <<>> THEN <<x>>
    ELSE IF x.key < seq[1].key THEN <<x>> \o seq
    ELSE <<seq[1]>> \o InsertStable(x, Tail(seq))

RECURSIVE StableSort(_)
StableSort(seq) ==
    IF seq = <<>> THEN <<>>
    ELSE InsertStable(seq[Len(seq)], StableSort(SubSeq(seq, 1, Len(seq) - 1)))

(* Sorted with the descending order made by reversing the ascending        *)
(* result, which turns the order of equal keys around.                     *)
SortedThenReversed(seq, reverse) ==
    IF reverse THEN Reversed(StableSort(seq)) ELSE StableSort(seq)

(* sorted(..., reverse=True): Python reverses the input, sorts it stably   *)
(* and reverses the result, so that equal keys still keep input order.     *)
Sorted(seq, reverse) ==
    IF reverse THEN Reversed(StableSort(Reversed(seq))) ELSE StableSort(seq)

-----------------------------------------------------------------------------
(* Domain (pyrameter.domains.base): a hyperparameter's value distribution. *)
(* A Domain is [name, complexity, values]: its place in the canonical      *)
(* order, its size measure (>= 1), and the raw values generate() can draw. *)

DomainPool ==
    { [name |-> 1, complexity |-> 2, values |-> <<10, 20>>],
      [name |-> 2, complexity |-> 1, values |-> <<5>>],
      [name |-> 3, complexity |-> 3, values |-> <<7>>] }

RawValues == UNION { {d.values[i] : i \in DOMAIN d.values} : d \in DomainPool }

(* Domain.generate(): one raw value of the domain.                         *)
DomainGenerate(d) == { d.values[i] : i \in DOMAIN d.values }

(* Domain.map_to_domain(raw): the numeric encoding of a raw value, its     *)
(* zero-based position among the domain's values.                          *)
MapToDomain(d, raw) ==
    (CHOOSE i \in DOMAIN d.values : d.values[i] = raw) - 1

(* Domain.to_json() / Domain.from_json().                                  *)
DomainToJson(d) ==
    [type |-> "Domain", name |-> d.name, complexity |-> d.complexity,
     domain |-> d.values]

DomainFromJson(o) ==
    [name |-> o.name, complexity |-> o.complexity, values |-> o.domain]

(* list.sort() on Domains: Domain's order is by name.                      *)
SortDomains(ds) ==
    LET sorted == StableSort([i \in DOMAIN ds |-> [key |-> ds[i].name, item |-> ds[i]]])
    IN  [i \in DOMAIN sorted |-> sorted[i].item]

-----------------------------------------------------------------------------
(* Trial (pyrameter.trial).                                                *)

Trial(hyperparameters, results, objective, errmsg) ==
    [hyperparameters |-> hyperparameters, results |-> results,
     objective |-> objective, errmsg |-> errmsg, dirty |-> TRUE]

TrialToJson(t) ==
    [hyperparameters |-> t.hyperparameters, results |-> t.results,
     objective |-> t.objective, errmsg |-> t.errmsg]

-----------------------------------------------------------------------------
(* SearchSpace.                                                            *)

(* The attributes a SearchSpace has: those __init__ sets and those the     *)
(* class defines.                                                          *)
SearchSpaceAttrs ==
    { "id", "exp_key", "trials", "_complexity", "_uncertainty", "domains", "done",
      "complexity", "from_json", "generate", "optimum", "to_array", "to_json",
      "uncertainty" }

(* SearchSpace.__init__                                                    *)
SearchSpace(domains) ==
    [exp_key |-> "", domains |-> SortDomains(domains), trials |-> <<>>,
     complexity_ |-> None, uncertainty_ |-> None]

(* SearchSpace.__eq__                                                      *)
SpaceEq(s, other) ==
    /\ Len(s.domains) = Len(other.domains)
    /\ \A i \in 1..Len(s.domains) : s.domains[i] = other.domains[i]

(* SearchSpace.generate: the vectors it can return.                        *)
generate(s) ==
    { v \in [1..Len(s.domains) -> RawValues] :
        \A i \in 1..Len(s.domains) : v[i] \in DomainGenerate(s.domains[i]) }

(* pyrameter.methods.random.random_search: one value per Domain.           *)
random_search(s) == { [ret |-> List(v), fits |-> 0] : v \in generate(s) }

(* complexity folding the Domain complexities with a sum.                  *)
RECURSIVE Sum(_)
Sum(seq) ==
    IF seq = <<>> THEN 1 ELSE seq[1] + Sum(Tail(seq))

ComplexityBySum(s) ==
    IF s.complexity_ = None
    THEN LET c == Sum([i \in 1..Len(s.domains) |-> s.domains[i].complexity])
         IN  Outcome([s EXCEPT !.complexity_ = Num(c)], Num(c), 0, 0)
    ELSE Outcome(s, s.complexity_, 0, 0)

(* SearchSpace.complexity (property): computed on the first read, then     *)
(* the cached value.                                                       *)
complexity(s) ==
    IF s.complexity_ = None
    THEN LET c == Product([i \in 1..Len(s.domains) |-> s.domains[i].complexity])
         IN  Outcome([s EXCEPT !.complexity_ = Num(c)], Num(c), 0, 0)
    ELSE Outcome(s, s.complexity_, 0, 0)

(* optimum answering None, instead of raising, when no Trial has an        *)
(* objective.                                                              *)
OptimumOrNone(s, mode) ==
    LET have == SelectSeq([i \in 1..Len(s.trials) |-> i],
                          LAMBDA i : s.trials[i].objective # None)
        keyed == [k \in 1..Len(have) |->
                    [key |-> s.trials[have[k]].objective.val, item |-> have[k]]]
        sorted == Sorted(keyed, mode = "max")
    IN  IF sorted = <<>>
        THEN Outcome(s, None, 0, 0)
        ELSE Outcome(s, TrialRef(sorted[1].item, s.trials[sorted[1].item]), 0, 0)

(* SearchSpace.optimum: element 0 of the Trials that have an objective,    *)
(* sorted by objective (descending for mode 'max').  Indexing the empty    *)
(* list raises IndexError.                                                 *)
optimum(s, mode) ==
    LET have == SelectSeq([i \in 1..Len(s.trials) |-> i],
                          LAMBDA i : s.trials[i].objective # None)
        keyed == [k \in 1..Len(have) |->
                    [key |-> s.trials[have[k]].objective.val, item |-> have[k]]]
        sorted == Sorted(keyed, mode = "max")
    IN  IF sorted = <<>>
        THEN Outcome(s, Raise("IndexError"), 0, 0)
        ELSE Outcome(s, TrialRef(sorted[1].item, s.trials[sorted[1].item]), 0, 0)

(* One row of to_array: the mapped value of every Domain, then the         *)
(* objective.                                                              *)
ToArrayRow(s, t) ==
    [j \in 1..(Len(s.domains) + 1) |->
        IF j <= Len(s.domains)
        THEN MapToDomain(s.domains[j], t.hyperparameters[j])
        ELSE t.objective.val]

(* SearchSpace.to_array: None without Trials; otherwise each Trial's row   *)
(* is added into a float32 matrix.  A row whose objective is None is an    *)
(* object array, and adding it into the float32 row raises TypeError.      *)
to_array(s) ==
    IF Len(s.trials) > 0
    THEN IF \E i \in 1..Len(s.trials) : s.trials[i].objective = None
         THEN Raise("TypeError")
         ELSE Matrix([i \in 1..Len(s.trials) |-> ToArrayRow(s, s.trials[i])])
    ELSE None

(* SearchSpace.to_json (simplify=False).                                   *)
to_json(s) ==
    Outcome(s,
            Json([exp_key |-> s.exp_key,
                  complexity |-> s.complexity_,
                  uncertainty |-> s.uncertainty_,
                  domains |-> [i \in 1..Len(s.domains) |-> DomainToJson(s.domains[i])],
                  trials |-> [i \in 1..Len(s.trials) |-> TrialToJson(s.trials[i])]]),
            0, 0)

(* from_json without the assignment trial.dirty = False.                   *)
FromJsonLeavingDirty(obj) ==
    LET domains == [i \in 1..Len(obj.domains) |-> DomainFromJson(obj.domains[i])]
        searchspace == SearchSpace(domains)
        trials == [i \in 1..Len(obj.trials) |->
                     Trial(obj.trials[i].hyperparameters, obj.trials[i].results,
                           obj.trials[i].objective, obj.trials[i].errmsg)]
    IN  [searchspace EXCEPT !.trials = trials,
                            !.complexity_ = obj.complexity,
                            !.uncertainty_ = obj.uncertainty]

(* SearchSpace.from_json                                                   *)
from_json(obj) ==
    LET domains == [i \in 1..Len(obj.domains) |-> DomainFromJson(obj.domains[i])]
        searchspace == SearchSpace(domains)
        trials == [i \in 1..Len(obj.trials) |->
                     [Trial(obj.trials[i].hyperparameters, obj.trials[i].results,
                            obj.trials[i].objective, obj.trials[i].errmsg)
                        EXCEPT !.dirty = FALSE]]
    IN  [searchspace EXCEPT !.trials = trials,
                            !.complexity_ = obj.complexity,
                            !.uncertainty_ = obj.uncertainty]

(* The number of Trials above which uncertainty models the history.        *)
UncertaintyMinTrials == 10

(* SearchSpace.uncertainty (property).  With more than 10 Trials it builds *)
(* the array (which raises when a Trial has no objective) and then         *)
(* evaluates labels.shape * 0.8, a tuple times a float: TypeError, before  *)
(* any Gaussian process is fitted and before _uncertainty is assigned.     *)
uncertainty(s) ==
    IF Len(s.trials) > UncertaintyMinTrials
    THEN LET uncertainty_array == to_array(s)
         IN  IF Raised(uncertainty_array)
             THEN Outcome(s, uncertainty_array, 0, 0)
             ELSE Outcome(s, Raise("TypeError"), 0, 0)
    ELSE Outcome([s EXCEPT !.uncertainty_ = Num(1)], Num(1), 0, 0)

-----------------------------------------------------------------------------
(* pyrameter.methods.bayes.bayes_opt: the results it can produce.          *)
(*                                                                         *)
(* Its first statement reads space.objective.  A SearchSpace has no such   *)
(* attribute, so the read raises AttributeError.  The rest is what the     *)
(* function does given the attribute (the objectives of the Trials that    *)
(* have one): the warm-up gate, then the surrogate branch, where the       *)
(* regressor is fitted on to_array()'s len(domains)+1 columns and asked to *)
(* predict candidates of len(domains) columns, which raises ValueError,    *)
(* unless the fit itself failed.                                           *)
bayes_opt(s, n_samples, warm_up) ==
    IF "objective" \notin SearchSpaceAttrs
    THEN { [ret |-> Raise("AttributeError"), fits |-> 0] }
    ELSE LET n == Cardinality({i \in 1..Len(s.trials) : s.trials[i].objective # None})
         IN  IF n < warm_up \/ n % warm_up = 0
             THEN random_search(s)
             ELSE LET features == to_array(s)
                  IN  IF Raised(features)
                      THEN { [ret |-> features, fits |-> 0] }
                      ELSE { [ret |-> Raise("LinAlgError"), fits |-> 1],
                             [ret |-> Raise("ValueError"), fits |-> 1] }

(* A sampling method supplied by the caller: it returns a vector or        *)
(* raises.                                                                 *)
user_method(s) ==
    { [ret |-> List(v), fits |-> 0] : v \in generate(s) }
        \cup { [ret |-> Raise("RuntimeError"), fits |-> 0] }

(* The default number of candidates of bayes_opt.                          *)
DefaultNSamples == 10

(* method(self): the results of invoking the sampling method once.         *)
Invoke(method, s, warm_up) ==
    CASE method = "random_search" -> random_search(s)
      [] method = "bayes_opt" -> bayes_opt(s, DefaultNSamples, warm_up)
      [] method = "user_method" -> user_method(s)

(* __call__ putting the new Trial at the head of the history.              *)
CallInsertingFirst(s, method, to_dict, warm_up) ==
    LET m == IF method = "None" THEN "random_search" ELSE method
    IN  { IF Raised(r.ret)
          THEN Outcome(s, r.ret, 1, r.fits)
          ELSE LET trial == Trial(r.ret.val, None, None, None)
                   after == [s EXCEPT !.trials = <<trial>> \o s.trials]
               IN  Outcome(after,
                           IF to_dict
                           THEN [kind |-> "dict", val |-> trial.hyperparameters]
                           ELSE TrialRef(Len(after.trials), trial),
                           1, r.fits)
          : r \in Invoke(m, s, warm_up) }

(* __call__ catching the method's exception and sampling at random         *)
(* instead.                                                                *)
CallFallingBack(s, method, to_dict, warm_up) ==
    LET m == IF method = "None" THEN "random_search" ELSE method
        wrap(vec, n, f) ==
            LET trial == Trial(vec, None, None, None)
                after == [s EXCEPT !.trials = Append(s.trials, trial)]
            IN  Outcome(after,
                        IF to_dict
                        THEN [kind |-> "dict", val |-> trial.hyperparameters]
                        ELSE TrialRef(Len(after.trials), trial),
                        n, f)
    IN  UNION { IF Raised(r.ret)
                THEN { wrap(q.ret.val, 2, r.fits) : q \in random_search(s) }
                ELSE { wrap(r.ret.val, 1, r.fits) }
                : r \in Invoke(m, s, warm_up) }

(* SearchSpace.__call__: method defaults to random_search; it is invoked   *)
(* once; when it returns, the vector is wrapped in a Trial appended to the *)
(* history; when it raises, the exception leaves __call__ at once.         *)
call(s, method, to_dict, warm_up) ==
    LET m == IF method = "None" THEN "random_search" ELSE method
    IN  { IF Raised(r.ret)
          THEN Outcome(s, r.ret, 1, r.fits)
          ELSE LET trial == Trial(r.ret.val, None, None, None)
                   after == [s EXCEPT !.trials = Append(s.trials, trial)]
               IN  Outcome(after,
                           IF to_dict
                           THEN [kind |-> "dict", val |-> trial.hyperparameters]
                           ELSE TrialRef(Len(after.trials), trial),
                           1, r.fits)
          : r \in Invoke(m, s, warm_up) }

-----------------------------------------------------------------------------
(* The driver: one action per operation on the SearchSpace.                *)

Methods == { "None", "bayes_opt", "user_method" }

(* The lists of distinct Domains of pool, in any order.                    *)
DomainLists(pool) ==
    { ds \in UNION { [1..n -> pool] : n \in 0..Cardinality(pool) } :
        \A i, j \in DOMAIN ds : i # j => ds[i] # ds[j] }

(* The arguments of a step: the object operated on, and the sampling       *)
(* method and warm_up of a call or the mode of optimum ("" and 0 when the  *)
(* operation takes none).                                                  *)
Arg(target, method, mode, warm_up) ==
    [target |-> target, method |-> method, mode |-> mode, warm_up |-> warm_up]

NoArg == Arg("space", "", "", 0)

(* space = SearchSpace(domains)                                            *)
Start(pool) ==
    /\ \E ds \in DomainLists(pool) : space = SearchSpace(ds)
    /\ copy = None
    /\ origin = "none"
    /\ exported = None
    /\ op = "init"
    /\ arg = NoArg
    /\ ret = None
    /\ calls = 0
    /\ fits = 0

(* The bookkeeping of a step on space.                                     *)
Did(o, a, out) ==
    /\ space' = out.space
    /\ op' = o
    /\ arg' = a
    /\ ret' = out.ret
    /\ calls' = out.calls
    /\ fits' = out.fits
    /\ UNCHANGED <<copy, origin, exported>>

(* The bookkeeping of a step on copy.                                      *)
DidCopy(o, out) ==
    /\ copy' = out.space
    /\ op' = o
    /\ arg' = Arg("copy", "", "", 0)
    /\ ret' = out.ret
    /\ calls' = out.calls
    /\ fits' = out.fits
    /\ UNCHANGED <<space, origin, exported>>

(* space(method, to_dict)                                                  *)
Call(cap, methods) ==
    /\ origin = "none"
    /\ Len(space.trials) < cap
    /\ \E method \in methods, to_dict \in BOOLEAN :
         \E warm_up \in IF method = "bayes_opt" THEN 1..MaxWarmUp ELSE {0} :
            \E out \in call(space, method, to_dict, warm_up) :
               Did("call", Arg("space", method, "", warm_up), out)

(* The evaluator reports the objective of a Trial that has none.           *)
Report(objectives) ==
    /\ origin = "none"
    /\ \E i \in 1..Len(space.trials), v \in objectives :
         /\ space.trials[i].objective = None
         /\ Did("report", NoArg,
                Outcome([space EXCEPT !.trials[i].objective = Num(v),
                                      !.trials[i].dirty = TRUE],
                        None, 0, 0))

(* space.generate()                                                        *)
Generate ==
    /\ origin = "none"
    /\ \E v \in generate(space) : Did("generate", NoArg, Outcome(space, List(v), 0, 0))

(* space.optimum(mode)                                                     *)
Optimum ==
    /\ origin = "none"
    /\ \E mode \in {"min", "max"} : Did("optimum", Arg("space", "", mode, 0), optimum(space, mode))

(* space.to_array()                                                        *)
ToArray ==
    /\ origin = "none"
    /\ Did("to_array", NoArg, Outcome(space, to_array(space), 0, 0))

(* space.to_json()                                                         *)
ToJson ==
    /\ origin = "none"
    /\ Did("to_json", NoArg, to_json(space))

(* space.complexity                                                        *)
Complexity ==
    /\ origin = "none"
    /\ Did("complexity", NoArg, complexity(space))

(* space.uncertainty                                                       *)
Uncertainty ==
    /\ origin = "none"
    /\ Did("uncertainty", NoArg, uncertainty(space))

(* copy = SearchSpace.from_json(obj), obj the object to_json just returned *)
FromJson ==
    /\ origin = "none"
    /\ op = "to_json"
    /\ copy' = from_json(ret.obj)
    /\ exported' = ret.obj
    /\ origin' = "from_json"
    /\ op' = "from_json"
    /\ arg' = Arg("copy", "", "", 0)
    /\ ret' = None
    /\ calls' = 0
    /\ fits' = 0
    /\ UNCHANGED space

(* copy = SearchSpace(space's Domains and one more Domain of complexity 1) *)
Extend ==
    /\ origin = "none"
    /\ \E d \in DomainPool, at \in 0..Len(space.domains) :
         /\ d.complexity = 1
         /\ copy' = SearchSpace(SubSeq(space.domains, 1, at) \o <<d>>
                                \o SubSeq(space.domains, at + 1, Len(space.domains)))
    /\ exported' = None
    /\ origin' = "extended"
    /\ op' = "init"
    /\ arg' = Arg("copy", "", "", 0)
    /\ ret' = None
    /\ calls' = 0
    /\ fits' = 0
    /\ UNCHANGED space

(* copy.complexity                                                         *)
CopyComplexity ==
    /\ origin # "none"
    /\ DidCopy("complexity", complexity(copy))

(* copy.uncertainty                                                        *)
CopyUncertainty ==
    /\ origin # "none"
    /\ DidCopy("uncertainty", uncertainty(copy))

-----------------------------------------------------------------------------
(* Spec: every operation on one SearchSpace, histories up to MaxTrials.    *)

Init == Start(DomainPool)

Next ==
    \/ Call(MaxTrials, Methods)
    \/ Report({1})
    \/ Generate
    \/ Optimum
    \/ ToArray
    \/ ToJson
    \/ Complexity
    \/ Uncertainty

Spec == Init /\ [][Next]_vars

(* SpecOptimum: histories of Trials with equal, different and missing     *)
(* objectives, and optimum in both modes.                                  *)

InitOptimum == Start({ d \in DomainPool : Len(d.values) = 1 })

NextOptimum ==
    \/ Call(MaxOptimumTrials, {"None"})
    \/ Report(1..MaxObjective)
    \/ Optimum

SpecOptimum == InitOptimum /\ [][NextOptimum]_vars

(* SpecLong: histories long enough to pass the threshold of uncertainty.   *)

InitLong == Start({ d \in DomainPool : Len(d.values) = 1 })

NextLong ==
    \/ Call(MaxLongTrials, {"None"})
    \/ Report({1})
    \/ ToArray
    \/ Uncertainty

SpecLong == InitLong /\ [][NextLong]_vars

(* SpecTwo: a SearchSpace is operated, then a second one is made from it   *)
(* (rebuilt from its JSON, or constructed with one more Domain) and read.  *)

InitTwo == Start(DomainPool)

NextTwo ==
    \/ Call(MaxTwoTrials, {"None"})
    \/ Report({1})
    \/ Complexity
    \/ Uncertainty
    \/ ToJson
    \/ FromJson
    \/ Extend
    \/ CopyComplexity
    \/ CopyUncertainty

SpecTwo == InitTwo /\ [][NextTwo]_vars

-----------------------------------------------------------------------------
(* Properties.                                                             *)

(* The Trials of s that carry an objective.                                *)
WithObjective(s) == { i \in 1..Len(s.trials) : s.trials[i].objective # None }

ObjectiveCount(s) == Cardinality(WithObjective(s))

(* The hyperparameter vector a successful call handed back, as a Trial or  *)
(* as a dictionary.                                                        *)
ReturnedVector(r) == IF r.kind = "Trial" THEN r.trial.hyperparameters ELSE r.val

IsVectorOf(v, s) ==
    /\ DOMAIN v = 1..Len(s.domains)
    /\ \A i \in 1..Len(s.domains) : v[i] \in DomainGenerate(s.domains[i])

(* C1: warm-up gate.  After a call with bayes_opt, when the number n of    *)
(* Trials carrying an objective is below warm_up or a multiple of it, the  *)
(* call returned a vector of random sampling and fitted no surrogate;      *)
(* for every other n it went into the surrogate branch.                    *)
C1_WarmUpGate ==
    (op = "call" /\ arg.method = "bayes_opt") =>
        LET n == ObjectiveCount(space)
        IN  IF n < arg.warm_up \/ n % arg.warm_up = 0
            THEN /\ ~Raised(ret)
                 /\ IsVectorOf(ReturnedVector(ret), space)
                 /\ fits = 0
            ELSE fits >= 1

(* C2: optimum(mode) on a Space with an objective-bearing Trial returns a  *)
(* Trial of the history that has an objective, whose objective is the      *)
(* minimum (mode 'min') or maximum (mode 'max') over the Trials that have  *)
(* one, and that is the earliest such Trial of the history.                *)
C2_OptimumSelection ==
    (op = "optimum" /\ WithObjective(space) # {}) =>
        /\ ret.kind = "Trial"
        /\ ret.index \in WithObjective(space)
        /\ ret.trial = space.trials[ret.index]
        /\ \A j \in WithObjective(space) :
             /\ arg.mode = "max" =>
                   space.trials[j].objective.val <= ret.trial.objective.val
             /\ arg.mode # "max" =>
                   space.trials[j].objective.val >= ret.trial.objective.val
             /\ j < ret.index =>
                   space.trials[j].objective.val # ret.trial.objective.val

(* Witness of C2: optimum('max') answered with a Trial that a later Trial  *)
(* ties, in a history that also holds a Trial without objective and a      *)
(* Trial with a smaller objective.                                         *)
C2_Witness ==
    /\ op = "optimum"
    /\ arg.mode = "max"
    /\ ret.kind = "Trial"
    /\ \E j \in WithObjective(space) :
         j > ret.index /\ space.trials[j].objective = ret.trial.objective
    /\ \E j \in WithObjective(space) :
         space.trials[j].objective.val < ret.trial.objective.val
    /\ \E j \in 1..Len(space.trials) : space.trials[j].objective = None

C4_UncertaintyFloor ==
    (op = "uncertainty" /\ arg.target = "space" /\ ObjectiveCount(space) <= 10) =>
        /\ ret = Num(1)
        /\ fits = 0

(* What from_json(to_json(space)) keeps, whatever is read afterwards: the  *)
(* Domain sequence, the number of Trials, and no Trial dirty.              *)
RoundTripKeeps ==
    /\ SpaceEq(copy, space)
    /\ copy.domains = space.domains
    /\ Len(copy.trials) = Len(space.trials)
    /\ \A i \in 1..Len(copy.trials) : ~copy.trials[i].dirty

(* The cached fields right after from_json are the exported ones.          *)
RoundTripCaches ==
    op = "from_json" =>
        /\ copy.complexity_ = exported.complexity
        /\ copy.uncertainty_ = exported.uncertainty
        /\ exported.complexity = space.complexity_
        /\ exported.uncertainty = space.uncertainty_

(* C5 as stated: JSON round trip; and a later read of complexity or of     *)
(* uncertainty on the rebuilt Space returns the exported value.            *)
C5_RoundTrip ==
    origin = "from_json" =>
        /\ RoundTripKeeps
        /\ RoundTripCaches
        /\ (op = "complexity" /\ arg.target = "copy") => ret = exported.complexity
        /\ (op = "uncertainty" /\ arg.target = "copy") => ret = exported.uncertainty

(* C5 as amended: JSON round trip; a later read of complexity returns the  *)
(* exported value when one was exported, and the product of the Domain     *)
(* complexities when none was; a later read of uncertainty on a rebuilt    *)
(* Space of at most 10 Trials returns 1, which is the exported value when  *)
(* one was exported.                                                       *)
C5_RoundTripAmended ==
    origin = "from_json" =>
        /\ RoundTripKeeps
        /\ RoundTripCaches
        /\ (op = "complexity" /\ arg.target = "copy") =>
              ret = IF exported.complexity # None
                    THEN exported.complexity
                    ELSE Num(Product([i \in 1..Len(copy.domains) |->
                                         copy.domains[i].complexity]))
        /\ (op = "uncertainty" /\ arg.target = "copy"
                /\ Len(copy.trials) <= UncertaintyMinTrials) =>
              /\ ret = Num(1)
              /\ exported.uncertainty # None => ret = exported.uncertainty

(* Witness of C5: complexity read on a Space rebuilt from an export that   *)
(* carried both cached values, two Domains and two Trials, one with an     *)
(* objective.                                                              *)
C5_Witness ==
    /\ origin = "from_json"
    /\ op = "complexity"
    /\ arg.target = "copy"
    /\ exported.complexity # None
    /\ exported.uncertainty # None
    /\ Len(copy.domains) >= 2
    /\ Len(copy.trials) >= 2
    /\ ObjectiveCount(copy) = 1

(* C6: append-only history.  A call that returns has invoked the method    *)
(* once and appended one Trial, holding the returned vector, after the     *)
(* earlier Trials, which are unchanged; generate, to_array, optimum,       *)
(* to_json and the reads of complexity and uncertainty leave the history   *)
(* as it was.                                                              *)
C6_AppendOnly ==
    [][ /\ (op' = "call" /\ ~Raised(ret')) =>
              /\ calls' = 1
              /\ Len(space'.trials) = Len(space.trials) + 1
              /\ SubSeq(space'.trials, 1, Len(space.trials)) = space.trials
              /\ space'.trials[Len(space'.trials)].hyperparameters = ReturnedVector(ret')
              /\ IsVectorOf(ReturnedVector(ret'), space)
              /\ ret'.kind = "Trial" =>
                    /\ ret'.index = Len(space'.trials)
                    /\ ret'.trial = space'.trials[ret'.index]
        /\ op' \in {"generate", "to_array", "optimum", "to_json", "complexity",
                    "uncertainty"} =>
              space'.trials = space.trials ]_vars

(* Witness of C6: a caller's method returned and its Trial is the third of *)
(* the history.                                                            *)
C6_Witness ==
    /\ op = "call"
    /\ arg.method = "user_method"
    /\ ~Raised(ret)
    /\ Len(space.trials) = 3
    /\ ObjectiveCount(space) >= 1

(* C7: to_array() returns None for a Space without Trials and otherwise a  *)
(* matrix of one row per Trial, with or without objective, and             *)
(* len(domains)+1 columns; it does not fail for a missing objective.       *)
C7_ToArrayShape ==
    op = "to_array" =>
        IF Len(space.trials) = 0
        THEN ret = None
        ELSE /\ ret.kind = "matrix"
             /\ Len(ret.rows) = Len(space.trials)
             /\ \A i \in 1..Len(ret.rows) : Len(ret.rows[i]) = Len(space.domains) + 1

(* The product of the complexities of the Domains of s.                    *)
DomainProduct(s) ==
    Product([i \in 1..Len(s.domains) |-> s.domains[i].complexity])

(* C8: a read of complexity returns the product of the Domains'            *)
(* complexities (1 without Domains, never below 1); once computed the      *)
(* cached value never changes, so later reads return it again; and a Space *)
(* built from the same Domains and one more Domain of complexity 1 reports *)
(* what the Space reports.                                                 *)
C8_Complexity ==
    [][ /\ op' = "complexity" =>
              LET s == IF arg'.target = "copy" THEN copy' ELSE space'
              IN  /\ ret' = Num(DomainProduct(s))
                  /\ ret'.val >= 1
                  /\ Len(s.domains) = 0 => ret'.val = 1
                  /\ s.complexity_ = ret'
        /\ space.complexity_ # None => space'.complexity_ = space.complexity_
        /\ (copy # None /\ copy.complexity_ # None) =>
              copy'.complexity_ = copy.complexity_
        /\ (op' = "complexity" /\ arg'.target = "copy" /\ origin' = "extended") =>
              /\ ret' = complexity(space').ret
              /\ Len(copy'.domains) = Len(space'.domains) + 1 ]_vars

(* Witness of C8: complexity read on a Space of three Domains made by      *)
(* adding a Domain of complexity 1 to a Space of two whose complexity had  *)
(* been read.                                                              *)
C8_Witness ==
    /\ op = "complexity"
    /\ arg.target = "copy"
    /\ origin = "extended"
    /\ Len(space.domains) = 2
    /\ Len(copy.domains) = 3
    /\ ret.val > 1
    /\ space.complexity_ # None

(* Exceptions of a failed surrogate fit.                                   *)
FittingErrors == { "LinAlgError", "ValueError" }

(* C9: a call with bayes_opt that hits no fitting error returns one        *)
(* vector with one entry per Domain, in Domain order, each entry a value   *)
(* its Domain generates.                                                   *)
C9_ResultShape ==
    (op = "call" /\ arg.method = "bayes_opt"
        /\ ~(Raised(ret) /\ ret.exc \in FittingErrors)) =>
        /\ ~Raised(ret)
        /\ IsVectorOf(ReturnedVector(ret), space)

(* C10: a call invokes its sampling method once; when the method raises,   *)
(* the call raises the same exception (a call returns only with a vector   *)
(* the method returned), no Trial is appended, and the Space (history,     *)
(* Domains, cached complexity) is as before.                               *)
C10_FailurePropagation ==
    [][ op' = "call" =>
            LET results == Invoke(IF arg'.method = "None" THEN "random_search"
                                                          ELSE arg'.method,
                                  space, arg'.warm_up)
            IN  /\ calls' = 1
                /\ IF Raised(ret')
                   THEN /\ ret' \in { r.ret : r \in results }
                        /\ space'.trials = space.trials
                        /\ space'.domains = space.domains
                        /\ space'.complexity_ = space.complexity_
                        /\ space' = space
                   ELSE \E r \in results :
                           /\ ~Raised(r.ret)
                           /\ r.ret.val = ReturnedVector(ret') ]_vars

(* Witness of C10: bayes_opt raised on a Space with Trials and a cached    *)
(* complexity.                                                             *)
C10_Witness ==
    /\ op = "call"
    /\ arg.method = "bayes_opt"
    /\ Raised(ret)
    /\ Len(space.trials) >= 2
    /\ ObjectiveCount(space) >= 1
    /\ space.complexity_ # None

====
